---- MODULE Spec2Model ----
(***************************************************************************)
(* A model of the cisco-perfmon client (src/main.js): the perfMonService   *)
(* class, its nine SOAP operations, the counter path encoding and decoding *)
(* and the helpers keyExists, removeKeys and clean.                        *)
(*                                                                         *)
(* A JavaScript string is modelled as a sequence of symbols; a symbol is a *)
(* TLA+ string that is never split (a letter, a separator, or a word that  *)
(* holds no separator).  A JavaScript value is a tagged record:            *)
(*   [t |-> "str", s |-> <<symbols>>]      a string                        *)
(*   [t |-> "num", n |-> 500]              a number                        *)
(*   [t |-> "undef"], [t |-> "null"]       undefined, null                 *)
(*   [t |-> "obj", kv |-> <<<<key, value>>, ...>>]   an object, keys in    *)
(*                                          insertion order                *)
(*   [t |-> "arr", el |-> <<value, ...>>]  an array                        *)
(*   [t |-> "throw", e |-> "TypeError"]    an exception thrown instead of  *)
(*                                          a value                        *)
(***************************************************************************)
EXTENDS Integers, Sequences, FiniteSets, TLC

VARIABLES
  OPTIONS,    \* this._OPTIONS of the one perfMonService instance
  ctorOptions,\* the options argument of the constructor, which retryOn closes over
  PERFMON_RETRIES, \* process.env.PERFMON_RETRIES: undefined, or a string
  calls,      \* per call: position, operation, arguments, attempt, request, outcome
  cref,       \* codec run: the CounterReference given by the caller
  cop,        \* codec run: the operation that encoded it
  cpath,      \* codec run: the path string placed in the request
  cdec,       \* codec run: the sample decoded from that path
  cstage,     \* codec run: "off", "ref", "encoded", "decoded"
  tree,       \* pruning run: the tree given to clean
  passes,     \* pruning run: what clean returned, application after application
  flow,       \* test workflow: the revision run, the last call issued, a throw
  helper      \* retry helper of the rate limit test: position, counts, outcome

vars ==
  <<OPTIONS, ctorOptions, PERFMON_RETRIES, calls, cref, cop, cpath, cdec, cstage,
    tree, passes, flow, helper>>
facadeVars == <<OPTIONS, ctorOptions, PERFMON_RETRIES, calls>>
codecVars == <<cref, cop, cpath, cdec, cstage>>
cleanVars == <<tree, passes>>
testVars == <<flow, helper>>

----------------------------------------------------------------------------
(* JavaScript values *)

Str(s) == [t |-> "str", s |-> s]
Num(n) == [t |-> "num", n |-> n]
Undef == [t |-> "undef"]
Null == [t |-> "null"]
Obj(kv) == [t |-> "obj", kv |-> kv]
Arr(el) == [t |-> "arr", el |-> el]
Throw(e) == [t |-> "throw", e |-> e]

\* JavaScript truthiness: undefined, null, "" and 0 are falsy.
Truthy(v) ==
  CASE v.t = "undef" -> FALSE
    [] v.t = "null" -> FALSE
    [] v.t = "str" -> v.s # <<>>
    [] v.t = "num" -> v.n # 0
    [] OTHER -> TRUE

\* String(v) as string concatenation and template literals apply it.
ToStr(v) ==
  CASE v.t = "str" -> v.s
    [] v.t = "undef" -> <<"undefined">>
    [] v.t = "null" -> <<"null">>
    [] OTHER -> <<"[object]">>

HasKey(o, k) == o.t = "obj" /\ \E i \in 1..Len(o.kv) : o.kv[i][1] = k

\* o[k]: the value of key k, undefined when o has no such key or is no object.
Get(o, k) ==
  IF HasKey(o, k)
  THEN o.kv[CHOOSE i \in 1..Len(o.kv) : o.kv[i][1] = k][2]
  ELSE Undef

\* All sequences over S of length at most n.
SeqsUpTo(S, n) == UNION {[1..k -> S] : k \in 0..n}

----------------------------------------------------------------------------
(* Counter path codec *)

BS == "\\"
LP == "("
RP == ")"

\* The symbols of the names the caller passes.
Letters == {"a", "b"}
Specials == {BS, LP, RP}

\* Longest host, object, counter and instance string of a codec run.
MaxLen == 1

\* The path with one leading separator instead of two.
AddCounterPathOneSlash(counter) ==
  <<BS>> \o ToStr(counter.host) \o <<BS>>
    \o (IF Truthy(counter.instance)
        THEN ToStr(counter.object) \o <<LP>> \o ToStr(counter.instance) \o <<RP>>
        ELSE ToStr(counter.object))
    \o <<BS>> \o ToStr(counter.counter)

\* "\\\\" + counter.host + "\\" + (counter.instance ? `${counter.object}(${counter.instance})`
\*   : counter.object) + "\\" + counter.counter
AddCounterPath(counter) ==
  <<BS, BS>> \o ToStr(counter.host) \o <<BS>>
    \o (IF Truthy(counter.instance)
        THEN ToStr(counter.object) \o <<LP>> \o ToStr(counter.instance) \o <<RP>>
        ELSE ToStr(counter.object))
    \o <<BS>> \o ToStr(counter.counter)

RemoveCounterPath(counter) ==
  <<BS, BS>> \o ToStr(counter.host) \o <<BS>>
    \o (IF Truthy(counter.instance)
        THEN ToStr(counter.object) \o <<LP>> \o ToStr(counter.instance) \o <<RP>>
        ELSE ToStr(counter.object))
    \o <<BS>> \o ToStr(counter.counter)

QueryCounterPath(counter) ==
  <<BS, BS>> \o ToStr(counter.host) \o <<BS>>
    \o (IF Truthy(counter.instance)
        THEN ToStr(counter.object) \o <<LP>> \o ToStr(counter.instance) \o <<RP>>
        ELSE ToStr(counter.object))
    \o <<BS>> \o ToStr(counter.counter)

\* s.split(sep) for a separator that is one symbol, or a regular expression
\* [..]+ over the symbols seps: every maximal run of separators splits.
RECURSIVE Split(_, _, _)
Split(s, seps, runs) ==
  IF \A i \in 1..Len(s) : s[i] \notin seps
  THEN <<s>>
  ELSE LET i == CHOOSE i \in 1..Len(s) :
                  s[i] \in seps /\ \A j \in 1..(i - 1) : s[j] \notin seps
           after == {j \in (i + 1)..Len(s) : s[j] \notin seps}
           k == IF ~runs THEN i + 1
                ELSE IF after = {} THEN Len(s) + 1
                ELSE CHOOSE j \in after : \A m \in after : j <= m
       IN <<SubSeq(s, 1, i - 1)>> \o Split(SubSeq(s, k, Len(s)), seps, runs)

\* .filter((element) => element) on an array of strings.
FilterNonEmpty(segs) == SelectSeq(segs, LAMBDA e : e # <<>>)

\* arr[i] of a JavaScript array of strings, 0-based: undefined past the end.
At(arr, i) == IF i + 1 <= Len(arr) THEN Str(arr[i + 1]) ELSE Undef

\* The decoding without the .filter((element) => element) after the split on
\* the separator: the empty segments before the host are kept.
DecodeNameUnfiltered(item) ==
  IF Get(item, "Name").t # "str" THEN Throw("TypeError")
  ELSE LET arr == Split(Get(item, "Name").s, {BS}, FALSE)
       IN IF Len(arr) < 2 THEN Throw("TypeError")
          ELSE LET instanceArr == FilterNonEmpty(Split(arr[2], {LP, RP}, TRUE))
               IN Obj(<< <<"host", At(arr, 0)>>,
                         <<"object", At(instanceArr, 0)>>,
                         <<"instance", IF Truthy(At(instanceArr, 1))
                                       THEN At(instanceArr, 1) ELSE Str(<<>>)>>,
                         <<"counter", At(arr, 2)>>,
                         <<"value", Get(item, "Value")>>,
                         <<"cstatus", Get(item, "CStatus")>> >>)

\* The sample built from one returned entry: item.Name.split("\\").filter(..),
\* arr[1].split(/[()]+/).filter(..), then the six fields.  A missing Name, a
\* Name that is no string, or a Name with fewer than two segments throws.
DecodeName(item) ==
  IF Get(item, "Name").t # "str" THEN Throw("TypeError")
  ELSE LET arr == FilterNonEmpty(Split(Get(item, "Name").s, {BS}, FALSE))
       IN IF Len(arr) < 2 THEN Throw("TypeError")
          ELSE LET instanceArr == FilterNonEmpty(Split(arr[2], {LP, RP}, TRUE))
               IN Obj(<< <<"host", At(arr, 0)>>,
                         <<"object", At(instanceArr, 0)>>,
                         <<"instance", IF Truthy(At(instanceArr, 1))
                                       THEN At(instanceArr, 1) ELSE Str(<<>>)>>,
                         <<"counter", At(arr, 2)>>,
                         <<"value", Get(item, "Value")>>,
                         <<"cstatus", Get(item, "CStatus")>> >>)

----------------------------------------------------------------------------
(* keyExists, removeKeys, clean *)

IsContainer(v) == v.t \in {"obj", "arr"}

\* keyExists(obj, key): the key anywhere in the tree.
RECURSIVE keyExists(_, _)
keyExists(obj, key) ==
  IF ~IsContainer(obj) THEN FALSE
  ELSE IF HasKey(obj, key) THEN TRUE
  ELSE IF obj.t = "arr"
       THEN \E i \in 1..Len(obj.el) : keyExists(obj.el[i], key)
       ELSE \E i \in 1..Len(obj.kv) : keyExists(obj.kv[i][2], key)

\* keys.indexOf(prop) > -1, keys being the string the callers pass ("$").
KeysIndexOf(keys, prop) == \E i \in 1..Len(keys) : keys[i] = prop

\* removeKeys that does not go into arrays.
RECURSIVE removeKeysOfObjects(_, _)
removeKeysOfObjects(obj, keys) ==
  CASE obj.t = "obj" ->
         LET kept == SelectSeq(obj.kv, LAMBDA p : ~KeysIndexOf(keys, p[1]))
         IN Obj([i \in 1..Len(kept) |->
                   <<kept[i][1], removeKeysOfObjects(kept[i][2], keys)>>])
    [] OTHER -> obj

\* removeKeys(obj, keys), done in place in the code: the tree it leaves.
RECURSIVE removeKeys(_, _)
removeKeys(obj, keys) ==
  CASE obj.t = "obj" ->
         LET kept == SelectSeq(obj.kv, LAMBDA p : ~KeysIndexOf(keys, p[1]))
         IN Obj([i \in 1..Len(kept) |-> <<kept[i][1], removeKeys(kept[i][2], keys)>>])
    [] obj.t = "arr" ->
         Arr([i \in 1..Len(obj.el) |-> removeKeys(obj.el[i], keys)])
    [] OTHER -> obj

\* (v && typeof v === "object" && !Object.keys(v).length) || v === null || v === undefined
IsEmptyValue(v) ==
  \/ v.t = "obj" /\ v.kv = <<>>
  \/ v.t = "arr" /\ v.el = <<>>
  \/ v.t \in {"null", "undef"}

RemoveAt(seq, k) == SubSeq(seq, 1, k - 1) \o SubSeq(seq, k + 1, Len(seq))

\* The forEach over Object.entries(array): entry k of the snapshot, when empty,
\* makes object.splice(k, 1) remove whatever stands at position k by then.
RECURSIVE SpliceLoop(_, _, _)
SpliceLoop(entries, k, cur) ==
  IF k > Len(entries) THEN cur
  ELSE SpliceLoop(entries, k + 1,
                  IF IsEmptyValue(entries[k]) /\ k <= Len(cur)
                  THEN RemoveAt(cur, k) ELSE cur)

\* clean(object), done in place in the code: the value it returns.
RECURSIVE clean(_)
clean(object) ==
  CASE object.t = "obj" ->
         LET cleaned == [i \in 1..Len(object.kv) |->
                           <<object.kv[i][1],
                             IF IsContainer(object.kv[i][2])
                             THEN clean(object.kv[i][2]) ELSE object.kv[i][2]>>]
         IN Obj(SelectSeq(cleaned, LAMBDA p : ~IsEmptyValue(p[2])))
    [] object.t = "arr" ->
         LET cleaned == [i \in 1..Len(object.el) |->
                           IF IsContainer(object.el[i])
                           THEN clean(object.el[i]) ELSE object.el[i]]
         IN Arr(SpliceLoop(cleaned, 1, cleaned))
    [] object.t \in {"undef", "null"} -> Throw("TypeError")
    [] OTHER -> object

----------------------------------------------------------------------------
(* Request envelopes: a template is its tags in order, "%s" a placeholder *)

Envelope(element, inner) ==
  <<"<soapenv:Envelope>", "<soapenv:Header/>", "<soapenv:Body>">>
    \o <<"<" \o element \o ">">> \o inner \o <<"</" \o element \o ">">>
    \o <<"</soapenv:Body>", "</soapenv:Envelope>">>

Placeholder == "%s"

XML_ADD_COUNTER_ENVELOPE ==
  Envelope("soap:perfmonAddCounter",
           <<"<soap:SessionHandle>", Placeholder, "</soap:SessionHandle>",
             "<soap:ArrayOfCounter>", Placeholder, "</soap:ArrayOfCounter>">>)

XML_CLOSE_SESSION_ENVELOPE ==
  Envelope("soap:perfmonCloseSession",
           <<"<soap:SessionHandle>", Placeholder, "</soap:SessionHandle>">>)

XML_COLLECT_COUNTER_ENVELOPE ==
  Envelope("soap:perfmonCollectCounterData",
           <<"<soap:Host>", Placeholder, "</soap:Host>",
             "<soap:Object>", Placeholder, "</soap:Object>">>)

XML_COLLECT_SESSION_ENVELOPE ==
  Envelope("soap:perfmonCollectSessionData",
           <<"<soap:SessionHandle>", Placeholder, "</soap:SessionHandle>">>)

XML_LIST_COUNTER_ENVELOPE ==
  Envelope("soap:perfmonListCounter", <<"<soap:Host>", Placeholder, "</soap:Host>">>)

XML_LIST_INSTANCE_ENVELOPE ==
  Envelope("soap:perfmonListInstance",
           <<"<soap:Host>", Placeholder, "</soap:Host>",
             "<soap:Object>", Placeholder, "</soap:Object>">>)

XML_OPEN_SESSION_ENVELOPE ==
  <<"<soapenv:Envelope>", "<soapenv:Header/>", "<soapenv:Body>",
    "<soap:perfmonOpenSession/>", "</soapenv:Body>", "</soapenv:Envelope>">>

XML_QUERY_COUNTER_ENVELOPE ==
  Envelope("soap:perfmonQueryCounterDescription", <<Placeholder>>)

XML_REMOVE_COUNTER_ENVELOPE ==
  Envelope("soap:perfmonRemoveCounter",
           <<"<soap:SessionHandle>", Placeholder, "</soap:SessionHandle>",
             "<soap:ArrayOfCounter>", Placeholder, "</soap:ArrayOfCounter>">>)

\* util.format(template, ...args): each %s takes the next argument, as a string.
RECURSIVE format(_, _)
format(template, args) ==
  IF template = <<>> THEN <<>>
  ELSE IF Head(template) = Placeholder /\ args # <<>>
       THEN Head(args) \o format(Tail(template), Tail(args))
       ELSE <<Head(template)>> \o format(Tail(template), args)

RECURSIVE Concat(_)
Concat(seqs) == IF seqs = <<>> THEN <<>> ELSE Head(seqs) \o Concat(Tail(seqs))

\* counterStr of addCounter with the fragments of a list last first.
AddCounterStrLastFirst(counter) ==
  IF counter.t = "arr"
  THEN Concat([i \in 1..Len(counter.el) |->
                 <<"<soap:Counter>", "<soap:Name>">>
                   \o AddCounterPath(counter.el[Len(counter.el) + 1 - i])
                   \o <<"</soap:Name>", "</soap:Counter>">>])
  ELSE <<"<soap:Counter>", "<soap:Name>">> \o AddCounterPath(counter)
         \o <<"</soap:Name>", "</soap:Counter>">>

\* counterStr of addCounter: one fragment per reference, a list or a single one.
AddCounterStr(counter) ==
  IF counter.t = "arr"
  THEN Concat([i \in 1..Len(counter.el) |->
                 <<"<soap:Counter>", "<soap:Name>">> \o AddCounterPath(counter.el[i])
                   \o <<"</soap:Name>", "</soap:Counter>">>])
  ELSE <<"<soap:Counter>", "<soap:Name>">> \o AddCounterPath(counter)
         \o <<"</soap:Name>", "</soap:Counter>">>

\* counterStr of removeCounter.
RemoveCounterStr(counter) ==
  IF counter.t = "arr"
  THEN Concat([i \in 1..Len(counter.el) |->
                 <<"<soap:Counter>", "<soap:Name>">> \o RemoveCounterPath(counter.el[i])
                   \o <<"</soap:Name>", "</soap:Counter>">>])
  ELSE <<"<soap:Counter>", "<soap:Name>">> \o RemoveCounterPath(counter)
         \o <<"</soap:Name>", "</soap:Counter>">>

\* counterStr of queryCounterDescription: the path bare inside Counter.
QueryCounterStr(counter) ==
  <<"<soap:Counter>">> \o QueryCounterPath(counter) \o <<"</soap:Counter>">>

\* counterStr of the three methods that take a reference.
CounterStr(op, counter) ==
  CASE op = "perfmonAddCounter" -> AddCounterStr(counter)
    [] op = "perfmonRemoveCounter" -> RemoveCounterStr(counter)
    [] op = "perfmonQueryCounterDescription" -> QueryCounterStr(counter)

WrapperTags == {"<soap:Counter>", "<soap:Name>", "</soap:Name>", "</soap:Counter>"}

\* The path string inside the Counter element of a one-reference counterStr.
PathInRequest(counterStr) == SelectSeq(counterStr, LAMBDA tok : tok \notin WrapperTags)

Operations ==
  {"perfmonCollectCounterData", "perfmonCollectSessionData", "perfmonListCounter",
   "perfmonListInstance", "perfmonOpenSession", "perfmonCloseSession",
   "perfmonAddCounter", "perfmonRemoveCounter", "perfmonQueryCounterDescription"}

\* XML of each method: the template filled with the method's arguments.
XML(op, args) ==
  CASE op = "perfmonCollectCounterData" ->
         format(XML_COLLECT_COUNTER_ENVELOPE, <<ToStr(args[1]), ToStr(args[2])>>)
    [] op = "perfmonCollectSessionData" ->
         format(XML_COLLECT_SESSION_ENVELOPE, <<ToStr(args[1])>>)
    [] op = "perfmonListCounter" ->
         format(XML_LIST_COUNTER_ENVELOPE, <<ToStr(args[1])>>)
    [] op = "perfmonListInstance" ->
         format(XML_LIST_INSTANCE_ENVELOPE, <<ToStr(args[1]), ToStr(args[2])>>)
    [] op = "perfmonOpenSession" ->
         format(XML_OPEN_SESSION_ENVELOPE, <<>>)
    [] op = "perfmonCloseSession" ->
         format(XML_CLOSE_SESSION_ENVELOPE, <<ToStr(args[1])>>)
    [] op = "perfmonAddCounter" ->
         format(XML_ADD_COUNTER_ENVELOPE, <<ToStr(args[1]), AddCounterStr(args[2])>>)
    [] op = "perfmonRemoveCounter" ->
         format(XML_REMOVE_COUNTER_ENVELOPE, <<ToStr(args[1]), RemoveCounterStr(args[2])>>)
    [] op = "perfmonQueryCounterDescription" ->
         format(XML_QUERY_COUNTER_ENVELOPE, <<QueryCounterStr(args[1])>>)

----------------------------------------------------------------------------
(* The constructor and the retry policy *)

\* Object.assign(target, source) on two objects.
ObjectAssign(target, source) ==
  LET over == [i \in 1..Len(target.kv) |->
                 IF HasKey(source, target.kv[i][1])
                 THEN <<target.kv[i][1], Get(source, target.kv[i][1])>>
                 ELSE target.kv[i]]
      fresh == SelectSeq(source.kv, LAMBDA p : ~HasKey(target, p[1]))
  IN Obj(over \o fresh)

\* this._OPTIONS as the constructor leaves it; retryOn is the function below.
constructor(options) ==
  LET headers == Obj(<< <<"Authorization", Str(<<"Basic ", "dXNlcjpwYXNz">>)>>,
                        <<"Content-Type", Str(<<"text/xml;charset=UTF-8">>)>>,
                        <<"Connection", Str(<<"keep-alive">>)>> >>)
  IN [method |-> "POST",
      headers |-> IF Truthy(options) THEN ObjectAssign(headers, options) ELSE headers,
      SOAPAction |-> Undef,
      body |-> Undef]

NaN == [t |-> "nan"]

Digits == <<"0", "1", "2", "3", "4", "5", "6", "7", "8", "9">>
IsDigit(sym) == \E i \in 1..10 : Digits[i] = sym
DigitValue(sym) == (CHOOSE i \in 1..10 : Digits[i] = sym) - 1

RECURSIVE ParseDigits(_, _)
ParseDigits(s, acc) ==
  IF s = <<>> \/ ~IsDigit(Head(s)) THEN acc
  ELSE ParseDigits(Tail(s), 10 * acc + DigitValue(Head(s)))

\* parseInt(s): the leading digits of s, NaN when it has none.
parseInt(s) == IF s = <<>> \/ ~IsDigit(Head(s)) THEN NaN ELSE Num(ParseDigits(s, 0))

DefaultRetries == 3

\* process.env.PERFMON_RETRIES ? parseInt(process.env.PERFMON_RETRIES) : 3
RetriesOf(env) == IF Truthy(env) THEN parseInt(env.s) ELSE Num(DefaultRetries)

\* retryOn(attempt, error, response) of the constructor: options is the
\* retryOn retrying on every response, whatever its status.
retryOnAnyStatus(options, env, attempt, error, response) ==
  IF ~Truthy(options) THEN FALSE
  ELSE IF RetriesOf(env).t = "num" /\ attempt > RetriesOf(env).n THEN FALSE
  ELSE TRUE

\* retryOn without the test on the constructor's argument.
retryOnWithoutOptions(options, env, attempt, error, response) ==
  IF RetriesOf(env).t = "num" /\ attempt > RetriesOf(env).n THEN FALSE
  ELSE error # Null \/ response.status >= 400

\* constructor's argument and env the value of PERFMON_RETRIES; error is null
\* when a response came.  A comparison with NaN is false.
retryOn(options, env, attempt, error, response) ==
  IF ~Truthy(options) THEN FALSE
  ELSE IF RetriesOf(env).t = "num" /\ attempt > RetriesOf(env).n THEN FALSE
  ELSE error # Null \/ response.status >= 400

\* What fetch puts on the wire for fetch(url, init): the members of init it
\* knows (method, headers, body); any other member of init is ignored.
WireRequest(init) ==
  [method |-> init.method, headers |-> init.headers, body |-> init.body]

----------------------------------------------------------------------------
(* The .then handler of the nine methods *)

ResponseKey(op) ==
  CASE op = "perfmonCollectCounterData" -> "perfmonCollectCounterDataResponse"
    [] op = "perfmonCollectSessionData" -> "perfmonCollectSessionDataResponse"
    [] op = "perfmonListCounter" -> "perfmonListCounterResponse"
    [] op = "perfmonListInstance" -> "perfmonListInstanceResponse"
    [] op = "perfmonOpenSession" -> "perfmonOpenSessionResponse"
    [] op = "perfmonCloseSession" -> "perfmonCloseSessionResponse"
    [] op = "perfmonAddCounter" -> "perfmonAddCounterResponse"
    [] op = "perfmonRemoveCounter" -> "perfmonRemoveCounterResponse"
    [] op = "perfmonQueryCounterDescription" -> "perfmonQueryCounterDescriptionResponse"

\* The methods that look for a Return key, and the key of each.
ReturnOps ==
  {"perfmonCollectCounterData", "perfmonCollectSessionData", "perfmonListCounter",
   "perfmonListInstance", "perfmonOpenSession", "perfmonQueryCounterDescription"}

ReturnKey(op) ==
  CASE op = "perfmonCollectCounterData" -> "perfmonCollectCounterDataReturn"
    [] op = "perfmonCollectSessionData" -> "perfmonCollectSessionDataReturn"
    [] op = "perfmonListCounter" -> "perfmonListCounterReturn"
    [] op = "perfmonListInstance" -> "perfmonListInstanceReturn"
    [] op = "perfmonOpenSession" -> "perfmonOpenSessionReturn"
    [] op = "perfmonQueryCounterDescription" -> "perfmonQueryCounterDescriptionReturn"

\* An Error object caught by catch (e).
ErrorObj(name) == [t |-> "error", name |-> name]

\* v.k as the code reads it: a TypeError when v is undefined or null.
Prop(v, k) ==
  IF v.t = "throw" THEN v
  ELSE IF v.t \in {"undef", "null"} THEN Throw("TypeError")
  ELSE Get(v, k)

PromiseResults(cookie, results) == Obj(<< <<"cookie", cookie>>, <<"results", results>> >>)
ErrorResults(message) == Obj(<< <<"message", message>> >>)

Resolve(value) == [settled |-> "resolved", value |-> value]
Reject(value) == [settled |-> "rejected", value |-> value]

\* The map with the samples last first.
MapDecodeLastFirst(el) ==
  LET m == [i \in 1..Len(el) |-> DecodeName(el[Len(el) + 1 - i])]
  IN IF \E i \in 1..Len(el) : m[i].t = "throw" THEN Throw("TypeError") ELSE Arr(m)

\* returnResults.map((item) => {...}) of the two collect methods.
MapDecode(el) ==
  LET m == [i \in 1..Len(el) |-> DecodeName(el[i])]
  IN IF \E i \in 1..Len(el) : m[i].t = "throw" THEN Throw("TypeError") ELSE Arr(m)

\* collectCounterData and collectSessionData, the Response key being there.
collectSuccess(op, output, cookie) ==
  IF keyExists(output, ReturnKey(op))
  THEN LET returnResults ==
             Prop(Prop(Prop(output, "Body"), ResponseKey(op)), ReturnKey(op))
           newOutput ==
             IF returnResults.t = "throw" THEN returnResults
             ELSE IF returnResults.t = "arr" THEN MapDecode(returnResults.el)
             ELSE DecodeName(returnResults)
       IN IF newOutput.t = "throw"
          THEN Reject(ErrorResults(ErrorObj(newOutput.e)))
          ELSE Resolve(PromiseResults(cookie, clean(newOutput)))
  ELSE Resolve(PromiseResults(cookie, Str(<<>>)))

\* promiseResults.results.filter((item) => filtered.includes(item.Name))
FilterByName(results, filtered) ==
  IF results.t # "arr" THEN Throw("TypeError")
  ELSE IF \E i \in 1..Len(results.el) : results.el[i].t \in {"undef", "null"}
       THEN Throw("TypeError")
       ELSE Arr(SelectSeq(results.el,
                          LAMBDA item : \E j \in 1..Len(filtered.el) :
                                          filtered.el[j] = Get(item, "Name")))

\* listCounter, the Response key being there.
listCounterSuccess(op, output, cookie, filtered) ==
  IF keyExists(output, ReturnKey(op))
  THEN LET returnResults ==
             Prop(Prop(Prop(output, "Body"), ResponseKey(op)), ReturnKey(op))
           results == IF returnResults.t = "throw" THEN returnResults
                      ELSE clean(returnResults)
           res == IF results.t # "throw" /\ Len(filtered.el) > 0
                  THEN FilterByName(results, filtered) ELSE results
       IN IF res.t = "throw"
          THEN Reject(ErrorResults(ErrorObj(res.e)))
          ELSE Resolve(PromiseResults(cookie, res))
  ELSE Resolve(PromiseResults(cookie, Str(<<>>)))

\* listInstance without the Array.isArray test: the Return value as it is.
listInstanceNoWrap(op, output, cookie) ==
  IF keyExists(output, ReturnKey(op))
  THEN LET returnResults ==
             Prop(Prop(Prop(output, "Body"), ResponseKey(op)), ReturnKey(op))
           results == IF returnResults.t = "throw" THEN returnResults
                      ELSE clean(returnResults)
       IN IF results.t = "throw"
          THEN Reject(ErrorResults(ErrorObj(results.e)))
          ELSE Resolve(PromiseResults(cookie, results))
  ELSE Resolve(PromiseResults(cookie, Str(<<>>)))

\* listInstance, the Response key being there.
listInstanceSuccess(op, output, cookie) ==
  IF keyExists(output, ReturnKey(op))
  THEN LET returnResults ==
             Prop(Prop(Prop(output, "Body"), ResponseKey(op)), ReturnKey(op))
           results == IF returnResults.t = "throw" THEN returnResults
                      ELSE clean(returnResults)
       IN IF results.t = "throw"
          THEN Reject(ErrorResults(ErrorObj(results.e)))
          ELSE IF results.t # "arr"
               THEN Resolve(Obj(<< <<"results", Arr(<<results>>)>> >>))
               ELSE Resolve(PromiseResults(cookie, results))
  ELSE Resolve(PromiseResults(cookie, Str(<<>>)))

\* openSession and queryCounterDescription rejecting a response without the
\* Return key.
returnSuccessRejectsEmpty(op, output, cookie) ==
  IF keyExists(output, ReturnKey(op))
  THEN LET returnResults ==
             Prop(Prop(Prop(output, "Body"), ResponseKey(op)), ReturnKey(op))
           results == IF returnResults.t = "throw" THEN returnResults
                      ELSE clean(returnResults)
       IN IF results.t = "throw"
          THEN Reject(ErrorResults(ErrorObj(results.e)))
          ELSE Resolve(PromiseResults(cookie, results))
  ELSE Reject(ErrorResults(Str(<<>>)))

\* openSession and queryCounterDescription, the Response key being there.
returnSuccess(op, output, cookie) ==
  IF keyExists(output, ReturnKey(op))
  THEN LET returnResults ==
             Prop(Prop(Prop(output, "Body"), ResponseKey(op)), ReturnKey(op))
           results == IF returnResults.t = "throw" THEN returnResults
                      ELSE clean(returnResults)
       IN IF results.t = "throw"
          THEN Reject(ErrorResults(ErrorObj(results.e)))
          ELSE Resolve(PromiseResults(cookie, results))
  ELSE Resolve(PromiseResults(cookie, Str(<<>>)))

\* closeSession, addCounter and removeCounter, the Response key being there.
plainSuccess(op, output, cookie) ==
  LET returnResults == Prop(Prop(output, "Body"), ResponseKey(op))
  IN IF returnResults.t = "throw"
     THEN Reject(ErrorResults(ErrorObj(returnResults.e)))
     ELSE IF Truthy(returnResults)
          THEN Resolve(PromiseResults(cookie, Str(<<"success">>)))
          ELSE Reject(ErrorResults(Str(<<"unknown">>)))

\* s.includes(sub)
Includes(s, sub) ==
  \E i \in 0..(Len(s) - Len(sub)) : SubSeq(s, i + 1, i + Len(sub)) = sub

\* The else branch with the two tests on the fault code in the other order.
faultBranchGeneralFirst(output, status) ==
  IF keyExists(output, "Fault")
  THEN LET Fault == Prop(Prop(output, "Body"), "Fault")
           faultcode == Prop(Fault, "faultcode")
       IN IF faultcode.t # "str"
          THEN Reject(ErrorResults(ErrorObj("TypeError")))
          ELSE IF Includes(faultcode.s, <<"generalException">>)
          THEN Reject(ErrorResults(Obj(<< <<"faultcode", Str(<<"generalException">>)>>,
                                          <<"faultstring", Get(Fault, "faultstring")>> >>)))
          ELSE IF Includes(faultcode.s, <<"RateControl">>)
          THEN Reject(ErrorResults(Obj(<< <<"faultcode", Str(<<"RateControl">>)>>,
                                          <<"faultstring", Get(Fault, "faultstring")>> >>)))
          ELSE Reject(ErrorResults(Obj(<< <<"faultcode", faultcode>>,
                                          <<"faultstring", Get(Fault, "faultstring")>> >>)))
  ELSE Reject(ErrorResults(Num(status)))

\* The else branch of every method: no Response key anywhere in the tree.
faultBranch(output, status) ==
  IF keyExists(output, "Fault")
  THEN LET Fault == Prop(Prop(output, "Body"), "Fault")
           faultcode == Prop(Fault, "faultcode")
       IN IF faultcode.t # "str"
          THEN Reject(ErrorResults(ErrorObj("TypeError")))
          ELSE IF Includes(faultcode.s, <<"RateControl">>)
          THEN Reject(ErrorResults(Obj(<< <<"faultcode", Str(<<"RateControl">>)>>,
                                          <<"faultstring", Get(Fault, "faultstring")>> >>)))
          ELSE IF Includes(faultcode.s, <<"generalException">>)
          THEN Reject(ErrorResults(Obj(<< <<"faultcode", Str(<<"generalException">>)>>,
                                          <<"faultstring", Get(Fault, "faultstring")>> >>)))
          ELSE Reject(ErrorResults(Obj(<< <<"faultcode", faultcode>>,
                                          <<"faultstring", Get(Fault, "faultstring")>> >>)))
  ELSE Reject(ErrorResults(Num(status)))

\* promiseResults.cookie: addCounter and removeCounter never read the header.
CookieOf(op, response) ==
  IF op \in {"perfmonAddCounter", "perfmonRemoveCounter"} THEN Str(<<>>)
  ELSE IF Truthy(response.setCookie) THEN response.setCookie ELSE Str(<<>>)

\* listCounter(host, filtered = [])
FilteredArg(args) == IF Len(args) >= 2 THEN args[2] ELSE Arr(<<>>)

\* The .then(async (response) => {...}) handler: how the promise of the call
\* is settled.  response.parsed is what parseXml gives for the body, a throw
\* when the body is no XML.
thenHandler(op, args, response) ==
  LET cookie == CookieOf(op, response)
  IN IF response.parsed.t = "throw"
     THEN Reject(ErrorResults(ErrorObj(response.parsed.e)))
     ELSE LET output == removeKeys(response.parsed, <<"$">>)
          IN IF keyExists(output, ResponseKey(op))
             THEN CASE op \in {"perfmonCollectCounterData", "perfmonCollectSessionData"} ->
                         collectSuccess(op, output, cookie)
                    [] op = "perfmonListCounter" ->
                         listCounterSuccess(op, output, cookie, FilteredArg(args))
                    [] op = "perfmonListInstance" ->
                         listInstanceSuccess(op, output, cookie)
                    [] op \in {"perfmonOpenSession", "perfmonQueryCounterDescription"} ->
                         returnSuccess(op, output, cookie)
                    [] OTHER -> plainSuccess(op, output, cookie)
             ELSE faultBranch(output, response.status)

\* The .catch((error) => {...}) handler: errorResults is a variable of the
\* .then handler and is not in scope here, so the assignment throws a
\* ReferenceError before reject is called; the promise of the call stays
\* pending.
catchHandler(error) == [settled |-> "pending", value |-> ErrorObj("ReferenceError")]

----------------------------------------------------------------------------
(* What the callers pass and what the server answers *)

Hosts == {<<"h1">>}
ObjectNames == {<<"Processor">>, <<"Memory">>, <<"R", "&", "D">>}
Handles == {<<"sess1">>}

\* The references of the calls: with an instance, with an empty one, with none.
CallRefs ==
  {[t |-> "ref", host |-> Str(<<"h1">>), object |-> Str(<<"Processor">>),
    instance |-> Str(<<"_Total">>), counter |-> Str(<<"CPU">>)],
   [t |-> "ref", host |-> Str(<<"h1">>), object |-> Str(<<"Memory">>),
    instance |-> Str(<<>>), counter |-> Str(<<"Used">>)],
   [t |-> "ref", host |-> Str(<<"h1">>), object |-> Str(<<"Memory">>),
    instance |-> Undef, counter |-> Str(<<"Free">>)]}

\* Longest list of references given to addCounter and removeCounter.
MaxRefs == 2

\* Most entries of one Return in a response.
MaxEntries == 2

\* Calls that may be in flight at once on the instance.
MaxCalls == 2

Calls == 1..MaxCalls

CounterArgs == CallRefs \cup {Arr(l) : l \in UNION {[1..k -> CallRefs] : k \in 1..MaxRefs}}

FilterArgs == {Arr(<<>>), Arr(<<Str(<<"Memory">>)>>)}

\* The argument lists of each method.
Invocations(op) ==
  CASE op \in {"perfmonCollectCounterData", "perfmonListInstance"} ->
         {<<Str(h), Str(o)>> : h \in Hosts, o \in ObjectNames}
    [] op = "perfmonListCounter" ->
         {<<Str(h)>> : h \in Hosts} \cup {<<Str(h), f>> : h \in Hosts, f \in FilterArgs}
    [] op = "perfmonOpenSession" -> {<<>>}
    [] op \in {"perfmonCollectSessionData", "perfmonCloseSession"} ->
         {<<Str(h)>> : h \in Handles}
    [] op \in {"perfmonAddCounter", "perfmonRemoveCounter"} ->
         {<<Str(h), c>> : h \in Handles, c \in CounterArgs}
    [] op = "perfmonQueryCounterDescription" -> {<<c>> : c \in CallRefs}

\* The constructor's options argument: none, an empty object, a Cookie header.
CtorOptions == {Undef, Obj(<<>>), Obj(<< <<"Cookie", Str(<<"JSESSIONIDSSO=1">>)>> >>)}

\* PERFMON_RETRIES: absent, a number, not a number.
EnvRetries == {Undef, Str(<<"1">>), Str(<<"many">>)}

\* Attempts of a call followed in a run; only a retry count that is not a
\* number lets a call come this far.
MaxAttempts == 6

StatusCodes == {200, 500}
SetCookies == {Null, Str(<<"JSESSIONIDSSO=2">>)}

Attrs == Obj(<< <<"xmlns:ns1", Str(<<"http://schemas.cisco.com/ast/soap">>)>> >>)

\* The tree parseXml gives for an envelope: the root's attributes, the Header
\* when it has children, the Body.
EnvelopeTree(header, body) ==
  Obj(<< <<"$", Attrs>> >>
      \o (IF header = Undef THEN <<>> ELSE << <<"Header", header>> >>)
      \o << <<"Body", body>> >>)

SampleNames ==
  {<<BS, BS, "h1", BS, "Processor", LP, "_Total", RP, BS, "CPU">>,
   <<BS, BS, "h1", BS, "Memory", BS, "Used">>,
   <<BS, BS, "h1", BS, "Memory">>,
   <<"h1">>}

\* One entry of a Return, as the server lists it for the method.
Entries(op) ==
  CASE op \in {"perfmonCollectCounterData", "perfmonCollectSessionData"} ->
         {Obj(<< <<"Name", Str(n)>>, <<"Value", Str(<<"5">>)>>, <<"CStatus", Str(<<"1">>)>> >>)
            : n \in SampleNames}
    [] op = "perfmonListCounter" ->
         {Obj(<< <<"$", Attrs>>, <<"Name", Str(n)>>,
                 <<"ArrayOfCounter", Obj(<< <<"item", Obj(<< <<"Name", Str(<<"Used">>)>> >>)>> >>)>> >>)
            : n \in ObjectNames}
    [] op = "perfmonListInstance" ->
         {Obj(<< <<"Name", Str(n)>> >>) : n \in {<<"_Total">>, <<"0">>}}
    [] op = "perfmonOpenSession" -> {Str(<<"sess1">>)}
    [] op = "perfmonQueryCounterDescription" -> {Str(<<"CPU", " ", "time">>)}

\* The value under the Return key: xml2js (explicitArray: false) gives the bare
\* entry when there is one and an array when there are several.
ReturnValues(op) ==
  IF op \in {"perfmonOpenSession", "perfmonQueryCounterDescription"}
  THEN Entries(op)
  ELSE Entries(op) \cup {Arr(l) : l \in UNION {[1..k -> Entries(op)] : k \in 2..MaxEntries}}

FaultCodes ==
  {<<"soap:Server.", "RateControl">>, <<"soap:Server.", "generalException">>,
   <<"soap:Server.", "generalException", ".", "RateControl">>, <<"soap:", "Client">>}

FaultStrings == {<<"Exceeded allowed rate">>, <<"Session does not exist">>}

FaultValues ==
  {Obj(<< <<"faultcode", Str(c)>>, <<"faultstring", Str(m)>> >>)
     : c \in FaultCodes, m \in FaultStrings}
  \cup {Obj(<< <<"faultstring", Str(<<"Session does not exist">>)>> >>)}

\* What parseXml gives for the bodies a server may send for the method: a
\* throw (no XML), null (an empty body), and envelopes with an empty Body, a
\* Response (empty, with attributes only, with a Return), a Fault, or a Return
\* key in the Header beside an empty Response.
ParsedBodies(op) ==
  {Throw("ParseError"), Null}
  \cup {EnvelopeTree(Undef, b) :
          b \in {Str(<<>>)}
                \cup {Obj(<< <<ResponseKey(op), Str(<<>>)>> >>),
                      Obj(<< <<ResponseKey(op), Obj(<< <<"$", Attrs>> >>)>> >>)}
                \cup {Obj(<< <<"Fault", f>> >>) : f \in FaultValues}}
  \cup (IF op \in ReturnOps
        THEN {EnvelopeTree(Undef, Obj(<< <<ResponseKey(op),
                                           Obj(<< <<"$", Attrs>>, <<ReturnKey(op), v>> >>)>> >>))
                : v \in ReturnValues(op)}
             \cup {EnvelopeTree(Obj(<< <<ReturnKey(op), Str(<<"x">>)>> >>),
                                Obj(<< <<ResponseKey(op), Str(<<>>)>> >>))}
        ELSE {})

Responses(op) ==
  [status : StatusCodes, setCookie : SetCookies, parsed : ParsedBodies(op)]

----------------------------------------------------------------------------
(* The calls *)

NoOutcome == [settled |-> "pending", value |-> Undef]

\* A handler run that calls resolve and then, from its catch block, reject.
InvokedAndRejected(outcome) ==
  IF outcome.settled = "pending" THEN <<>> ELSE <<outcome.settled, "rejected">>

\* The calls of resolve and reject a handler run makes, in order: each path
\* of the .then handler ends in one call of either, in an if/else chain or in
\* the catch block of its try; the .catch handler throws before its reject.
Invoked(outcome) ==
  IF outcome.settled = "pending" THEN <<>> ELSE <<outcome.settled>>

Idle ==
  [pc |-> "idle", op |-> "", args |-> <<>>, attempt |-> 0, init |-> Undef,
   last |-> Null, delay |-> "none", error |-> Null, response |-> Null,
   outcome |-> NoOutcome, invoked |-> <<>>]

\* The constructor has run and no method has been called.
Constructed(options, env) ==
  /\ ctorOptions = options
  /\ PERFMON_RETRIES = env
  /\ OPTIONS = constructor(options)
  /\ calls = [c \in Calls |-> Idle]

\* A method is called: it writes the action and the body into this._OPTIONS
\* and, in the Promise executor, hands that object to fetch, which sends the
\* first attempt at once.
Invoke(c, op, args) ==
  /\ calls[c].pc = "idle"
  /\ LET options == [OPTIONS EXCEPT !.SOAPAction = Str(<<op>>), !.body = Str(XML(op, args))]
     IN /\ OPTIONS' = options
        /\ calls' = [calls EXCEPT ![c] =
                       [Idle EXCEPT !.pc = "fetching", !.op = op, !.args = args,
                                    !.init = options]]
  /\ UNCHANGED <<ctorOptions, PERFMON_RETRIES>>

\* fetch-retry on the end of an attempt: retryOn decides between a timer for
\* the next attempt and the method's handler.  last is the response the
\* timer was set for, dropped when the timer fires.  When it retries, retryOn
\* has started its own timer, delay(...), which it does not wait for: it
\* returns true with that timer armed.
Respond(c, response) ==
  /\ calls[c].pc = "fetching"
  /\ calls' = [calls EXCEPT ![c] =
       IF retryOn(ctorOptions, PERFMON_RETRIES, calls[c].attempt, Null, response)
       THEN [@ EXCEPT !.pc = "retryWait", !.last = response, !.delay = "armed"]
       ELSE [@ EXCEPT !.pc = "done", !.response = response,
                      !.outcome = thenHandler(calls[c].op, calls[c].args, response),
                      !.invoked = @ \o Invoked(thenHandler(calls[c].op, calls[c].args, response))]]
  /\ UNCHANGED <<OPTIONS, ctorOptions, PERFMON_RETRIES>>

\* The attempt ends in a network error.
Fail(c) ==
  /\ calls[c].pc = "fetching"
  /\ calls' = [calls EXCEPT ![c] =
       IF retryOn(ctorOptions, PERFMON_RETRIES, calls[c].attempt, ErrorObj("FetchError"), Null)
       THEN [@ EXCEPT !.pc = "retryWait", !.delay = "armed"]
       ELSE [@ EXCEPT !.pc = "done", !.error = ErrorObj("FetchError"),
                      !.outcome = catchHandler(ErrorObj("FetchError")),
                      !.invoked = @ \o Invoked(catchHandler(ErrorObj("FetchError")))]]
  /\ UNCHANGED <<OPTIONS, ctorOptions, PERFMON_RETRIES>>

\* The retry timer fires and the next attempt takes the cookie the server set
\* in the response being retried as its Cookie header.
RetryTimerAdoptingCookie(c) ==
  /\ calls[c].pc = "retryWait"
  /\ calls[c].attempt + 1 < MaxAttempts
  /\ calls' = [calls EXCEPT ![c] =
                 [@ EXCEPT !.pc = "fetching", !.attempt = @ + 1,
                           !.init = IF calls[c].last # Null /\ calls[c].last.setCookie # Null
                                    THEN [OPTIONS EXCEPT !.headers =
                                            ObjectAssign(@, Obj(<< <<"Cookie", calls[c].last.setCookie>> >>))]
                                    ELSE OPTIONS,
                           !.last = Null, !.delay = "none"]]
  /\ UNCHANGED <<OPTIONS, ctorOptions, PERFMON_RETRIES>>

\* The retry timer fires: fetch-retry calls fetch again with the init object
\* it was given, which is this._OPTIONS as it is by now.  The timer of
\* retryOn, fired or not, is of no concern from here on.
RetryTimer(c) ==
  /\ calls[c].pc = "retryWait"
  /\ calls[c].attempt + 1 < MaxAttempts
  /\ calls' = [calls EXCEPT ![c] =
                 [@ EXCEPT !.pc = "fetching", !.attempt = @ + 1, !.init = OPTIONS,
                           !.last = Null, !.delay = "none"]]
  /\ UNCHANGED <<OPTIONS, ctorOptions, PERFMON_RETRIES>>

\* The timer retryOn started with delay(...) fires; nothing waits for it.  Its
\* duration (PERFMON_RETRY_DELAY, 1000 ms by default) and that of the retry
\* timer of fetch-retry are not compared: either may fire first.
DelayFires(c) ==
  /\ calls[c].delay = "armed"
  /\ calls' = [calls EXCEPT ![c] = [@ EXCEPT !.delay = "fired"]]
  /\ UNCHANGED <<OPTIONS, ctorOptions, PERFMON_RETRIES>>

----------------------------------------------------------------------------
(* The codec run: a reference is encoded by one of the three operations   *)
(* that take one, and the path is decoded as a returned Name is.          *)

NameStrings == SeqsUpTo(Letters, MaxLen)
AnyStrings == SeqsUpTo(Letters \cup Specials, MaxLen)

\* host, object and counter are names without separator or parenthesis; the
\* instance is any string, or absent.
Refs ==
  [t : {"ref"},
   host : {Str(s) : s \in NameStrings},
   object : {Str(s) : s \in NameStrings},
   instance : {Undef} \cup {Str(s) : s \in AnyStrings},
   counter : {Str(s) : s \in NameStrings}]

CounterOps == {"perfmonAddCounter", "perfmonRemoveCounter", "perfmonQueryCounterDescription"}

CleanOff == tree = Undef /\ passes = <<>>

FlowOff == flow = Undef

HelperOff == helper = Undef

CodecOff ==
  /\ cref = Undef /\ cop = "" /\ cpath = <<>> /\ cdec = Undef /\ cstage = "off"

CodecInit ==
  /\ cref \in Refs
  /\ cop = "" /\ cpath = <<>> /\ cdec = Undef /\ cstage = "ref"
  /\ OPTIONS = Undef /\ ctorOptions = Undef /\ PERFMON_RETRIES = Undef /\ calls = <<>>
  /\ CleanOff
  /\ FlowOff
  /\ HelperOff

Encode(op) ==
  /\ cstage = "ref"
  /\ cop' = op
  /\ cpath' = PathInRequest(CounterStr(op, cref))
  /\ cstage' = "encoded"
  /\ UNCHANGED <<cref, cdec>>

Decode ==
  /\ cstage = "encoded"
  /\ cdec' = LET newOutput == DecodeName(Obj(<< <<"Name", Str(cpath)>> >>))
              IN IF newOutput.t = "throw" THEN newOutput ELSE clean(newOutput)
  /\ cstage' = "decoded"
  /\ UNCHANGED <<cref, cop, cpath>>

CodecNext ==
  \/ \E op \in CounterOps : Encode(op) /\ UNCHANGED <<facadeVars, cleanVars, testVars>>
  \/ Decode /\ UNCHANGED <<facadeVars, cleanVars, testVars>>

SpecCodec == CodecInit /\ [][CodecNext]_vars

----------------------------------------------------------------------------
(* The pruning run: clean is applied to a result tree, and again to what    *)
(* it returned                                                              *)

\* Values without children, and the two empty containers.
Leaves == {Null, Undef, Str(<<>>), Str(<<"x">>), Obj(<<>>), Arr(<<>>)}

\* The children of a tree: leaves, objects of one key, an array.
Inner ==
  Leaves
  \cup {Obj(<< <<"Name", v>> >>) : v \in {Null, Str(<<"x">>), Obj(<<>>)}}
  \cup {Arr(<<Null, Str(<<"x">>)>>)}

\* Longest array given to clean.
MaxElems == 3

\* Applications of clean in a run.
MaxPasses == 2

\* The result trees: an array of children, an object of two keys.
Trees ==
  {Arr(l) : l \in SeqsUpTo(Inner, MaxElems)}
  \cup {Obj(<< <<"host", v>>, <<"results", w>> >>) : v \in Inner, w \in Inner}

CleanInit ==
  /\ tree \in Trees
  /\ passes = <<>>
  /\ OPTIONS = Undef /\ ctorOptions = Undef /\ PERFMON_RETRIES = Undef /\ calls = <<>>
  /\ CodecOff
  /\ FlowOff
  /\ HelperOff

\* clean(tree), then clean of what it returned.
Clean ==
  /\ Len(passes) < MaxPasses
  /\ passes' = Append(passes, clean(IF passes = <<>> THEN tree
                                      ELSE passes[Len(passes)]))
  /\ UNCHANGED tree

CleanNext == Clean /\ UNCHANGED <<facadeVars, codecVars, testVars>>

SpecClean == CleanInit /\ [][CleanNext]_vars

----------------------------------------------------------------------------
(* One call against every answer of the server *)

\* The call of the runs with one call.
FirstCall == CHOOSE c \in Calls : \A d \in Calls : c <= d

Init ==
  /\ \E options \in CtorOptions, env \in EnvRetries : Constructed(options, env)
  /\ CodecOff
  /\ CleanOff
  /\ FlowOff
  /\ HelperOff

Next ==
  \/ \E op \in Operations : \E args \in Invocations(op) :
       Invoke(FirstCall, op, args) /\ UNCHANGED <<codecVars, cleanVars, testVars>>
  \/ /\ calls[FirstCall].pc = "fetching"
     /\ \E response \in Responses(calls[FirstCall].op) :
          Respond(FirstCall, response) /\ UNCHANGED <<codecVars, cleanVars, testVars>>
  \/ Fail(FirstCall) /\ UNCHANGED <<codecVars, cleanVars, testVars>>
  \/ RetryTimer(FirstCall) /\ UNCHANGED <<codecVars, cleanVars, testVars>>
  \/ DelayFires(FirstCall) /\ UNCHANGED <<codecVars, cleanVars, testVars>>

Spec == Init /\ [][Next]_vars

----------------------------------------------------------------------------
(* Calls issued without awaiting each other, against a server that answers *)
(* with an empty success or a rate-limit fault                             *)

RaceInvocations ==
  {<<"perfmonCollectCounterData", <<Str(<<"h1">>), Str(<<"Processor">>)>> >>,
   <<"perfmonCollectCounterData", <<Str(<<"h1">>), Str(<<"Memory">>)>> >>,
   <<"perfmonOpenSession", <<>> >>}

RaceResponses(op) ==
  {[status |-> 200, setCookie |-> Null,
    parsed |-> EnvelopeTree(Undef, Obj(<< <<ResponseKey(op), Obj(<< <<"$", Attrs>> >>)>> >>))],
   [status |-> 500, setCookie |-> Null,
    parsed |-> EnvelopeTree(Undef, Obj(<< <<"Fault",
                 Obj(<< <<"faultcode", Str(<<"soap:Server.", "RateControl">>)>>,
                        <<"faultstring", Str(<<"Exceeded allowed rate">>)>> >>)>> >>))]}

\* The text of the element of that name in a request body.
ElementText(body, element) ==
  LET open == CHOOSE i \in 1..Len(body) : body[i] = "<soap:" \o element \o ">"
      close == CHOOSE i \in 1..Len(body) : body[i] = "</soap:" \o element \o ">"
  IN SubSeq(body, open + 1, close - 1)

\* The operation a request body asks for.
Asks(body, op) == \E i \in 1..Len(body) : body[i] \in {"<soap:" \o op \o ">", "<soap:" \o op \o "/>"}

\* The server's answer to the request it was sent: to collectCounterData one
\* sample of the object the request names, on the host it names; to
\* openSession a session handle.
AnswerTo(init) ==
  [status |-> 200, setCookie |-> Null,
   parsed |->
     IF Asks(init.body.s, "perfmonCollectCounterData")
     THEN EnvelopeTree(Undef, Obj(<< <<ResponseKey("perfmonCollectCounterData"),
            Obj(<< <<"$", Attrs>>,
                   <<ReturnKey("perfmonCollectCounterData"),
                     Obj(<< <<"Name", Str(<<BS, BS>> \o ElementText(init.body.s, "Host") \o <<BS>>
                                            \o ElementText(init.body.s, "Object") \o <<BS, "Used">>)>>,
                            <<"Value", Str(<<"5">>)>>,
                            <<"CStatus", Str(<<"1">>)>> >>)>> >>)>> >>))
     ELSE EnvelopeTree(Undef, Obj(<< <<ResponseKey("perfmonOpenSession"),
            Obj(<< <<"$", Attrs>>,
                   <<ReturnKey("perfmonOpenSession"), Str(<<"sess1">>)>> >>)>> >>))]

\* The answers to the request call c has in flight.
RaceAnswers(c) == RaceResponses(calls[c].op) \cup {AnswerTo(calls[c].init)}

RaceInit ==
  /\ \E options \in {Undef, Obj(<<>>)} : Constructed(options, Str(<<"1">>))
  /\ CodecOff
  /\ CleanOff
  /\ FlowOff
  /\ HelperOff

RaceNext ==
  \/ \E c \in Calls : \E inv \in RaceInvocations :
       Invoke(c, inv[1], inv[2]) /\ UNCHANGED <<codecVars, cleanVars, testVars>>
  \/ \E c \in Calls :
       /\ calls[c].pc = "fetching"
       /\ \E response \in RaceAnswers(c) :
            Respond(c, response) /\ UNCHANGED <<codecVars, cleanVars, testVars>>
  \/ \E c \in Calls : Fail(c) /\ UNCHANGED <<codecVars, cleanVars, testVars>>
  \/ \E c \in Calls : RetryTimer(c) /\ UNCHANGED <<codecVars, cleanVars, testVars>>
  \/ \E c \in Calls : DelayFires(c) /\ UNCHANGED <<codecVars, cleanVars, testVars>>

SpecRace == RaceInit /\ [][RaceNext]_vars

----------------------------------------------------------------------------
(* One call to its end: the server ends every attempt, by one of its       *)
(* answers or by a network error, and every timer fires                    *)

LiveInit ==
  /\ \E options \in CtorOptions, env \in EnvRetries : Constructed(options, env)
  /\ CodecOff
  /\ CleanOff
  /\ FlowOff
  /\ HelperOff

LiveNext ==
  \/ \E inv \in RaceInvocations :
       Invoke(FirstCall, inv[1], inv[2]) /\ UNCHANGED <<codecVars, cleanVars, testVars>>
  \/ /\ calls[FirstCall].pc = "fetching"
     /\ \E response \in RaceAnswers(FirstCall) :
          Respond(FirstCall, response) /\ UNCHANGED <<codecVars, cleanVars, testVars>>
  \/ Fail(FirstCall) /\ UNCHANGED <<codecVars, cleanVars, testVars>>
  \/ RetryTimer(FirstCall) /\ UNCHANGED <<codecVars, cleanVars, testVars>>
  \/ DelayFires(FirstCall) /\ UNCHANGED <<codecVars, cleanVars, testVars>>

SpecLive == LiveInit /\ [][LiveNext]_vars /\ WF_vars(LiveNext)

----------------------------------------------------------------------------
(* The test workflow (src/unnamed/part_000, src/test/tests.js): the calls  *)
(* of the async function, one after the other, each in a slot of calls     *)

FlowOps ==
  <<"perfmonQueryCounterDescription", "perfmonOpenSession", "perfmonAddCounter",
    "perfmonCollectSessionData", "perfmonRemoveCounter", "perfmonCloseSession",
    "perfmonCollectCounterData", "perfmonListCounter", "perfmonListInstance">>

FlowCalls == 1..Len(FlowOps)

\* The calls of the session chain, openSession to closeSession.
ChainCalls == 2..6

Revisions == {"part_000", "tests.js"}

counterObj ==
  [t |-> "ref", host |-> Str(<<"h1">>), object |-> Str(<<"Processor", LP, "_Total", RP>>),
   instance |-> Undef, counter |-> Str(<<"% CPU Time">>)]

\* SessionID = results, in the .then callback of openSession.
SessionID == calls[2].outcome.value

\* The arguments of the k-th call of the workflow.
FlowArgs(k) ==
  CASE k = 1 -> <<counterObj>>
    [] k = 2 -> <<>>
    [] k = 3 -> <<SessionID, counterObj>>
    [] k = 4 -> <<SessionID>>
    [] k = 5 -> <<SessionID, IF flow.revision = "tests.js"
                             THEN Get(calls[4].outcome.value, "Results")
                             ELSE counterObj>>
    [] k = 6 -> <<SessionID>>
    [] k = 7 -> <<Str(<<"h1">>), Str(<<"Cisco CallManager">>)>>
    [] k = 8 -> <<Str(<<"h1">>)>>
    [] k = 9 -> <<Str(<<"h1">>), Str(<<"Processor">>)>>

Settled(c) == calls[c].pc = "done" /\ calls[c].outcome.settled # "pending"

FlowInit ==
  /\ flow \in [revision : Revisions, step : {0}, thrown : {FALSE}]
  /\ ctorOptions = Undef
  /\ PERFMON_RETRIES \in EnvRetries
  /\ OPTIONS = constructor(Undef)
  /\ calls = [c \in FlowCalls |-> Idle]
  /\ CodecOff
  /\ CleanOff
  /\ HelperOff

\* await service.queryCounterDescription(counterObj)
FlowQuery ==
  /\ flow.step = 0
  /\ Invoke(1, FlowOps[1], FlowArgs(1))
  /\ flow' = [flow EXCEPT !.step = 1]

\* The object the chain is called on: service in part_000; in tests.js
\* serviceSSO, which is "" unless the .then callback of the first call found
\* results.Cookie and constructed an instance with it.
ServiceSSO ==
  IF flow.revision = "part_000" THEN Undef
  ELSE IF calls[1].outcome.settled = "resolved" /\ Truthy(Get(calls[1].outcome.value, "Cookie"))
       THEN Obj(<< <<"Cookie", Get(calls[1].outcome.value, "Cookie")>> >>)
       ELSE Str(<<>>)

\* The first await is over, its promise settled either way: openSession is
\* called.  On "" there is no such method and the async function ends in a
\* TypeError.
FlowOpen ==
  /\ flow.step = 1
  /\ ~flow.thrown
  /\ Settled(1)
  /\ IF ServiceSSO = Str(<<>>)
     THEN /\ flow' = [flow EXCEPT !.thrown = TRUE]
          /\ UNCHANGED facadeVars
     ELSE /\ flow' = [flow EXCEPT !.step = 2]
          /\ LET options == [constructor(ServiceSSO) EXCEPT
                               !.SOAPAction = Str(<<FlowOps[2]>>),
                               !.body = Str(XML(FlowOps[2], FlowArgs(2)))]
             IN /\ OPTIONS' = options
                /\ ctorOptions' = ServiceSSO
                /\ calls' = [calls EXCEPT ![2] =
                               [Idle EXCEPT !.pc = "fetching", !.op = FlowOps[2],
                                            !.args = FlowArgs(2), !.init = options]]
          /\ UNCHANGED PERFMON_RETRIES

\* The next call of the chain issued once call k has settled, resolved or
\* rejected.
FlowThenOrCatch(k) ==
  /\ flow.step = k
  /\ Settled(k)
  /\ Invoke(k + 1, FlowOps[k + 1], FlowArgs(k + 1))
  /\ flow' = [flow EXCEPT !.step = k + 1]

\* The .then callback of call k of the chain issues the next call.
FlowThen(k) ==
  /\ flow.step = k
  /\ calls[k].pc = "done"
  /\ calls[k].outcome.settled = "resolved"
  /\ Invoke(k + 1, FlowOps[k + 1], FlowArgs(k + 1))
  /\ flow' = [flow EXCEPT !.step = k + 1]

\* The chain is over: one of its calls was rejected and the .catch callback
\* logged the error, or closeSession resolved.
ChainOver ==
  /\ flow.step \in ChainCalls
  /\ Settled(flow.step)
  /\ \/ calls[flow.step].outcome.settled = "rejected"
     \/ flow.step = 6

\* The awaits after the chain: collectCounterData, listCounter, listInstance,
\* each once the promise before it has settled.
FlowAfter ==
  /\ \/ ChainOver
     \/ flow.step \in 7..8 /\ Settled(flow.step)
  /\ LET k == IF flow.step < 7 THEN 7 ELSE flow.step + 1
     IN /\ Invoke(k, FlowOps[k], FlowArgs(k))
        /\ flow' = [flow EXCEPT !.step = k]

\* The server and the network on the call the workflow is waiting for.  The
\* instance was constructed without options, so no attempt is retried.
FlowNext ==
  \/ FlowQuery /\ UNCHANGED <<codecVars, cleanVars, helper>>
  \/ FlowOpen /\ UNCHANGED <<codecVars, cleanVars, helper>>
  \/ \E k \in 2..5 : FlowThen(k) /\ UNCHANGED <<codecVars, cleanVars, helper>>
  \/ FlowAfter /\ UNCHANGED <<codecVars, cleanVars, helper>>
  \/ /\ flow.step \in FlowCalls
     /\ calls[flow.step].pc = "fetching"
     /\ \E response \in RaceResponses(calls[flow.step].op) :
          Respond(flow.step, response) /\ UNCHANGED <<codecVars, cleanVars, testVars>>
  \/ /\ flow.step \in FlowCalls
     /\ Fail(flow.step) /\ UNCHANGED <<codecVars, cleanVars, testVars>>

SpecFlow == FlowInit /\ [][FlowNext]_vars

----------------------------------------------------------------------------
(* The retry helper of the rate limit test (src/test/rateLimitTest.js):    *)
(* retry(fn, retriesLeft, retryInteveral, promiseDelay)                    *)

\* Largest retriesLeft given to retry.
MaxRetriesLeft == 4

\* What fn's promise is rejected with, and fulfilled with; n is the number of
\* the invocation.
FnErrors == {"RateControl", "generalException"}
FnError(e, n) == Obj(<< <<"message", Str(<<e>>)>>, <<"invocation", Num(n)>> >>)
FnValue(n) == Obj(<< <<"results", Str(<<"data">>)>>, <<"invocation", Num(n)>> >>)

\* retry(fn, given) has been called: its executor waits for promiseDelay.
HelperInit ==
  /\ \E given \in 0..MaxRetriesLeft :
       helper = [pc |-> "delay", given |-> given, retriesLeft |-> given,
                 results |-> <<>>, running |-> 0,
                 outcome |-> NoOutcome, invoked |-> <<>>]
  /\ OPTIONS = Undef /\ ctorOptions = Undef /\ PERFMON_RETRIES = Undef /\ calls = <<>>
  /\ CodecOff
  /\ CleanOff
  /\ FlowOff

\* The promiseDelay timer fires: fn() is invoked.
PromiseDelay ==
  /\ helper.pc = "delay"
  /\ helper' = [helper EXCEPT !.pc = "running", !.running = @ + 1]

\* fn's promise is fulfilled: .then(resolve).
FnFulfils ==
  /\ helper.pc = "running"
  /\ LET value == FnValue(Len(helper.results) + 1)
     IN helper' = [helper EXCEPT !.pc = "settled", !.running = @ - 1,
                                 !.results = Append(@, Resolve(value)),
                                 !.outcome = Resolve(value),
                                 !.invoked = Append(@, "resolved")]

\* fn's promise is rejected and retry starts a timer even when no retry is
\* left.
FnRejectsAlwaysRetrying(e) ==
  /\ helper.pc = "running"
  /\ LET error == FnError(e, Len(helper.results) + 1)
     IN helper' = IF helper.retriesLeft >= 0
                  THEN [helper EXCEPT !.pc = "interval", !.running = @ - 1,
                                      !.results = Append(@, Reject(error))]
                  ELSE [helper EXCEPT !.pc = "settled", !.running = @ - 1,
                                      !.results = Append(@, Reject(error)),
                                      !.outcome = Reject(error),
                                      !.invoked = Append(@, "rejected")]

\* fn's promise is rejected: .catch((error) => {...}) starts the
\* retryInteveral timer when retries are left, and rejects otherwise.
FnRejects(e) ==
  /\ helper.pc = "running"
  /\ LET error == FnError(e, Len(helper.results) + 1)
     IN helper' = IF helper.retriesLeft > 0
                  THEN [helper EXCEPT !.pc = "interval", !.running = @ - 1,
                                      !.results = Append(@, Reject(error))]
                  ELSE [helper EXCEPT !.pc = "settled", !.running = @ - 1,
                                      !.results = Append(@, Reject(error)),
                                      !.outcome = Reject(error),
                                      !.invoked = Append(@, "rejected")]

\* The retryInteveral timer fires: retry(fn, retriesLeft - 1, retryInteveral),
\* whose promise settles the one before it through .then(resolve, reject).
IntervalFires ==
  /\ helper.pc = "interval"
  /\ helper' = [helper EXCEPT !.pc = "delay", !.retriesLeft = @ - 1]

HelperNext ==
  \/ PromiseDelay /\ UNCHANGED <<facadeVars, codecVars, cleanVars, flow>>
  \/ FnFulfils /\ UNCHANGED <<facadeVars, codecVars, cleanVars, flow>>
  \/ \E e \in FnErrors : FnRejects(e) /\ UNCHANGED <<facadeVars, codecVars, cleanVars, flow>>
  \/ IntervalFires /\ UNCHANGED <<facadeVars, codecVars, cleanVars, flow>>

\* The timers fire and the promise fn returns settles.
SpecHelper == HelperInit /\ [][HelperNext]_vars /\ WF_vars(HelperNext)

----------------------------------------------------------------------------
(* Properties *)

\* The request an attempt of call c has in flight.
InFlight(c) == calls[c].pc = "fetching"

\* The call has ended: its handler has run.
Done(c) == calls[c].pc = "done"

\* C1: whatever the interleaving of calls issued on one instance without
\* awaiting each other, every request in flight for a call, its first attempt
\* and each retry, carries the operation name and the body of that call and
\* never those of another call.
C1_OwnActionAndBody ==
  \A c \in Calls :
    InFlight(c) =>
      /\ calls[c].init.SOAPAction = Str(<<calls[c].op>>)
      /\ WireRequest(calls[c].init).body = Str(XML(calls[c].op, calls[c].args))

\* The tag of the operation element of a request body.
OperationTag(body) == body.s[4]

TagOf(op) ==
  IF op = "perfmonOpenSession" THEN "<soap:" \o op \o "/>" ELSE "<soap:" \o op \o ">"

\* C2: every outbound request of each of the nine operations has, among its
\* HTTP headers, an action header whose value is the name of the invoked
\* operation, the one of the operation element of the request body.
C2_ActionHeaderSent ==
  InFlight(FirstCall) =>
    LET request == WireRequest(calls[FirstCall].init)
    IN /\ HasKey(request.headers, "SOAPAction")
       /\ Get(request.headers, "SOAPAction") = Str(<<calls[FirstCall].op>>)
       /\ OperationTag(request.body) = TagOf(calls[FirstCall].op)

NoSeparator(v) == \A i \in 1..Len(v.s) : v.s[i] \notin Specials

\* The decoded sample has the host, object, instance and counter of the
\* reference, an absent instance being the empty string.
RoundTrips ==
  /\ cdec.t = "obj"
  /\ Get(cdec, "host") = cref.host
  /\ Get(cdec, "object") = cref.object
  /\ Get(cdec, "instance") = (IF cref.instance = Undef THEN Str(<<>>) ELSE cref.instance)
  /\ Get(cdec, "counter") = cref.counter

\* C3 as stated: for every reference whose host, object and counter hold no
\* backslash and no parenthesis, decoding the encoded path gives the
\* reference back, an absent instance being decoded as the empty string.
C3_RoundTripAsStated ==
  (/\ cstage = "decoded"
   /\ NoSeparator(cref.host) /\ NoSeparator(cref.object) /\ NoSeparator(cref.counter))
  => RoundTrips

NamesRoundTrip ==
  /\ cref.host.s # <<>> /\ cref.object.s # <<>> /\ cref.counter.s # <<>>
  /\ NoSeparator(cref.host) /\ NoSeparator(cref.object) /\ NoSeparator(cref.counter)
  /\ cref.instance # Undef => NoSeparator(cref.instance)

\* C3: for every reference whose host, object and counter are not empty and
\* whose host, object, counter and instance (when there is one) hold no
\* backslash and no parenthesis, decoding the encoded path gives the same
\* host, object, instance and counter, an absent instance being decoded as
\* the empty string.
C3_RoundTrip == (cstage = "decoded" /\ NamesRoundTrip) => RoundTrips

\* A reference with an instance has been encoded and decoded back.
C3_Witness ==
  /\ cstage = "decoded" /\ NamesRoundTrip
  /\ cref.instance # Undef /\ cref.instance.s # <<>>
  /\ Get(cdec, "instance") = cref.instance

\* Two backslashes, host, one backslash, object, the instance in parentheses
\* when it is not empty, one backslash, counter.
PathOf(ref) ==
  LET instance == IF ref.instance = Undef THEN <<>> ELSE ref.instance.s
  IN <<BS, BS>> \o ref.host.s \o <<BS>> \o ref.object.s
       \o (IF instance # <<>> THEN <<LP>> \o instance \o <<RP>> ELSE <<>>)
       \o <<BS>> \o ref.counter.s

\* C4: the path string addCounter, removeCounter and queryCounterDescription
\* place in the request is two backslashes, host, one backslash, object, the
\* instance in parentheses if and only if it is not empty, one backslash,
\* counter; the three operations give the same reference the same path.
C4_PathFormat ==
  cstage \in {"encoded", "decoded"} =>
    /\ cpath = PathOf(cref)
    /\ \A op \in CounterOps : PathInRequest(CounterStr(op, cref)) = cpath

\* addCounter has encoded a reference with an instance, in parentheses.
C4_Witness ==
  /\ cstage = "encoded" /\ cop = "perfmonAddCounter"
  /\ cref.instance # Undef /\ cref.instance.s # <<>>
  /\ cpath = <<BS, BS>> \o cref.host.s \o <<BS>> \o cref.object.s
               \o <<LP>> \o cref.instance.s \o <<RP, BS>> \o cref.counter.s

\* The call has ended on a response, handed to the .then handler.
Answered(c) == Done(c) /\ calls[c].response # Null

Resolved(c) == calls[c].outcome.settled = "resolved"
Rejected(c) == calls[c].outcome.settled = "rejected"

\* The value the server put under the Return key of the operation's Response,
\* undefined when there is none.
ReturnOf(op, parsed) == Get(Get(Get(parsed, "Body"), ResponseKey(op)), ReturnKey(op))

\* The entries the server listed: the elements of an array, the one bare entry.
EntriesOf(op, parsed) ==
  LET v == ReturnOf(op, parsed)
  IN IF v.t = "arr" THEN v.el ELSE IF v = Undef THEN <<>> ELSE <<v>>

CollectOps == {"perfmonCollectCounterData", "perfmonCollectSessionData"}

\* C5: every successful outcome of collectCounterData and collectSessionData
\* has a list as its results: N entries give a list of N, one bare entry a
\* list of one, no entry the empty list; never a bare sample object.
C5_CollectResultsIsList ==
  (Answered(FirstCall) /\ calls[FirstCall].op \in CollectOps /\ Resolved(FirstCall)) =>
    LET results == Get(calls[FirstCall].outcome.value, "results")
    IN /\ results.t = "arr"
       /\ Len(results.el) = Len(EntriesOf(calls[FirstCall].op, calls[FirstCall].response.parsed))

\* C6: listInstance resolves with a list as its results whenever the response
\* holds at least one instance entry; a single bare entry gives the list of
\* that one entry, never the bare object.
C6_ListInstanceIsList ==
  (/\ Answered(FirstCall) /\ calls[FirstCall].op = "perfmonListInstance"
   /\ EntriesOf("perfmonListInstance", calls[FirstCall].response.parsed) # <<>>)
  => LET entries == EntriesOf("perfmonListInstance", calls[FirstCall].response.parsed)
         results == Get(calls[FirstCall].outcome.value, "results")
     IN /\ Resolved(FirstCall)
        /\ results.t = "arr"
        /\ Len(results.el) = Len(entries)
        /\ Len(entries) = 1 => results.el = entries

\* listInstance has ended on a response whose Return is one bare entry.
C6_Witness ==
  /\ Answered(FirstCall) /\ calls[FirstCall].op = "perfmonListInstance"
  /\ ReturnOf("perfmonListInstance", calls[FirstCall].response.parsed).t = "obj"
  /\ Get(calls[FirstCall].outcome.value, "results")
       = Arr(<<ReturnOf("perfmonListInstance", calls[FirstCall].response.parsed)>>)

\* A success status, the operation's Response directly under Body, and the
\* operation's Return key nowhere in the document.
SuccessWithoutReturn(op, response) ==
  /\ response.status \in 200..299
  /\ response.parsed.t = "obj"
  /\ HasKey(Get(response.parsed, "Body"), ResponseKey(op))
  /\ ~keyExists(response.parsed, ReturnKey(op))

\* C7: for each operation that has a Return key, a well-formed success
\* response without that key resolves with an empty result and never rejects.
C7_NoReturnResolvesEmpty ==
  (/\ Answered(FirstCall) /\ calls[FirstCall].op \in ReturnOps
   /\ SuccessWithoutReturn(calls[FirstCall].op, calls[FirstCall].response))
  => /\ Resolved(FirstCall)
     /\ Get(calls[FirstCall].outcome.value, "results") = Str(<<>>)

\* openSession has ended on a success response without a Return key.
C7_Witness ==
  /\ Answered(FirstCall) /\ calls[FirstCall].op = "perfmonOpenSession"
  /\ SuccessWithoutReturn("perfmonOpenSession", calls[FirstCall].response)
  /\ Resolved(FirstCall)

FaultOf(parsed) == Get(Get(parsed, "Body"), "Fault")

\* The response went to the fault branch and its Fault has a faultcode.
ClassifiedAsFault(c) ==
  /\ Answered(c)
  /\ calls[c].response.parsed.t = "obj"
  /\ ~keyExists(calls[c].response.parsed, ResponseKey(calls[c].op))
  /\ Get(FaultOf(calls[c].response.parsed), "faultcode").t = "str"

ReportedCode(c) == Get(Get(calls[c].outcome.value, "message"), "faultcode")
ReportedString(c) == Get(Get(calls[c].outcome.value, "message"), "faultstring")

\* C8 as stated: a faultcode containing "RateControl" is reported as the
\* rate-limit fault, one containing "generalException" as the
\* general-exception fault, any other with the literal code; the faultstring
\* is passed through unchanged.
C8_ClassificationAsStated ==
  ClassifiedAsFault(FirstCall) =>
    LET Fault == FaultOf(calls[FirstCall].response.parsed)
        faultcode == Get(Fault, "faultcode")
        rate == Includes(faultcode.s, <<"RateControl">>)
        general == Includes(faultcode.s, <<"generalException">>)
    IN /\ Rejected(FirstCall)
       /\ rate => ReportedCode(FirstCall) = Str(<<"RateControl">>)
       /\ general => ReportedCode(FirstCall) = Str(<<"generalException">>)
       /\ (~rate /\ ~general) => ReportedCode(FirstCall) = faultcode
       /\ ReportedString(FirstCall) = Get(Fault, "faultstring")

\* C8: when a response is classified as a fault, for every operation, a
\* faultcode containing "RateControl" is reported as the rate-limit fault, one
\* containing "generalException" and not "RateControl" as the
\* general-exception fault, any other with the server's literal code; the
\* faultstring is passed through unchanged in the three cases.
C8_Classification ==
  ClassifiedAsFault(FirstCall) =>
    LET Fault == FaultOf(calls[FirstCall].response.parsed)
        faultcode == Get(Fault, "faultcode")
        rate == Includes(faultcode.s, <<"RateControl">>)
        general == Includes(faultcode.s, <<"generalException">>)
    IN /\ Rejected(FirstCall)
       /\ rate => ReportedCode(FirstCall) = Str(<<"RateControl">>)
       /\ (general /\ ~rate) => ReportedCode(FirstCall) = Str(<<"generalException">>)
       /\ (~rate /\ ~general) => ReportedCode(FirstCall) = faultcode
       /\ ReportedString(FirstCall) = Get(Fault, "faultstring")

\* A fault whose code holds both names has been reported as the rate-limit
\* fault, with the server's faultstring.
C8_Witness ==
  /\ ClassifiedAsFault(FirstCall)
  /\ Includes(Get(FaultOf(calls[FirstCall].response.parsed), "faultcode").s, <<"RateControl">>)
  /\ Includes(Get(FaultOf(calls[FirstCall].response.parsed), "faultcode").s, <<"generalException">>)
  /\ ReportedCode(FirstCall) = Str(<<"RateControl">>)
  /\ ReportedString(FirstCall) = Get(FaultOf(calls[FirstCall].response.parsed), "faultstring")

\* C9: for every operation, when the final response has a status outside the
\* success range or a body that carries a Fault, the promise rejects; it
\* never resolves with a success value.
C9_FailureStatusRejects ==
  (/\ Answered(FirstCall)
   /\ \/ calls[FirstCall].response.status \notin 200..299
      \/ keyExists(calls[FirstCall].response.parsed, "Fault"))
  => Rejected(FirstCall)

\* C10: when the HTTP call of a method has failed with a network error, the
\* retries being exhausted, the promise of the method is rejected; it is not
\* left pending.
C10_NetworkErrorRejects ==
  (Done(FirstCall) /\ calls[FirstCall].error # Null) => Rejected(FirstCall)

\* Attempts call c has issued so far: attempt is the 0-based number of the
\* current one.
Attempts(c) == IF calls[c].pc = "idle" THEN 0 ELSE calls[c].attempt + 1

\* C11: with retries enabled and the default configuration, a call whose
\* every attempt fails issues at most 3 HTTP attempts in total and then stops
\* retrying.
C11_AtMostThreeAttempts ==
  (Truthy(ctorOptions) /\ PERFMON_RETRIES = Undef) => Attempts(FirstCall) <= 3

C13_FaultNotRetried ==
  calls[FirstCall].pc = "retryWait" =>
    \/ calls[FirstCall].last = Null
    \/ ~keyExists(calls[FirstCall].last.parsed, "Fault")

\* C14: for every operation, when the final response has a set-cookie header,
\* the outcome delivered to the caller, a result or an error, carries the
\* header's value as its cookie; when the header is absent, a successful
\* result carries the empty string as its cookie.
C14_CookieDelivered ==
  Answered(FirstCall) =>
    LET setCookie == calls[FirstCall].response.setCookie
        cookie == Get(calls[FirstCall].outcome.value, "cookie")
    IN /\ setCookie # Null => cookie = setCookie
       /\ (setCookie = Null /\ Resolved(FirstCall)) => cookie = Str(<<>>)

\* The entries of the server's list as delivered: attributes stripped, pruned.
Delivered(entries) == [i \in 1..Len(entries) |-> clean(removeKeys(entries[i], <<"$">>))]

\* C15: listCounter with a non-empty filter resolves with exactly the entries
\* of the server's list whose Name is in the filter, in the server's order;
\* with the filter absent or empty it resolves with the full list (the one
\* entry itself when the server lists one); the request is the same in both
\* cases.
C15_FilterByName ==
  /\ (calls[FirstCall].op = "perfmonListCounter" /\ calls[FirstCall].pc # "idle") =>
       calls[FirstCall].init.body
         = Str(XML("perfmonListCounter", <<calls[FirstCall].args[1]>>))
  /\ (/\ Answered(FirstCall) /\ calls[FirstCall].op = "perfmonListCounter"
      /\ EntriesOf("perfmonListCounter", calls[FirstCall].response.parsed) # <<>>)
     => LET full == Delivered(EntriesOf("perfmonListCounter",
                                        calls[FirstCall].response.parsed))
            filtered == FilteredArg(calls[FirstCall].args)
            results == Get(calls[FirstCall].outcome.value, "results")
        IN /\ Resolved(FirstCall)
           /\ IF Len(filtered.el) > 0
              THEN results = Arr(SelectSeq(full, LAMBDA e :
                                   \E j \in 1..Len(filtered.el) :
                                      filtered.el[j] = Get(e, "Name")))
              ELSE results = Arr(full) \/ (Len(full) = 1 /\ results = full[1])

\* The non-empty segments between backslashes of an entry's Name.
Segments(entry) == FilterNonEmpty(Split(Get(entry, "Name").s, {BS}, FALSE))

\* C17: whenever a returned entry's Name has fewer than 3 non-empty segments
\* between backslashes, collectCounterData and collectSessionData reject;
\* they never resolve with a sample that lacks host, object or counter.
C17_ShortNameRejects ==
  (/\ Answered(FirstCall) /\ calls[FirstCall].op \in CollectOps
   /\ LET entries == EntriesOf(calls[FirstCall].op, calls[FirstCall].response.parsed)
      IN \E i \in 1..Len(entries) : Len(Segments(entries[i])) < 3)
  => Rejected(FirstCall)

\* The tokens between the ArrayOfCounter tags of a request body.
Payload(body) ==
  LET open == CHOOSE i \in 1..Len(body) : body[i] = "<soap:ArrayOfCounter>"
      close == CHOOSE i \in 1..Len(body) : body[i] = "</soap:ArrayOfCounter>"
  IN SubSeq(body, open + 1, close - 1)

Fragment(ref) ==
  <<"<soap:Counter>", "<soap:Name>">> \o PathOf(ref) \o <<"</soap:Name>", "</soap:Counter>">>

ArrayOps == {"perfmonAddCounter", "perfmonRemoveCounter"}

\* C18: for addCounter and removeCounter given a list of N >= 1 references,
\* the ArrayOfCounter payload of the request is the N Counter/Name fragments
\* of the references in input order, with nothing before, between or after
\* them; a single reference gives the payload of the one-element list.
C18_ArrayOfCounterPayload ==
  (calls[FirstCall].op \in ArrayOps /\ calls[FirstCall].pc # "idle") =>
    LET counter == calls[FirstCall].args[2]
        refs == IF counter.t = "arr" THEN counter.el ELSE <<counter>>
        payload == Payload(WireRequest(calls[FirstCall].init).body.s)
    IN /\ payload = Concat([i \in 1..Len(refs) |-> Fragment(refs[i])])
       /\ payload = Payload(XML(calls[FirstCall].op,
                                <<calls[FirstCall].args[1], Arr(refs)>>))

\* addCounter is in flight with a list of two different references.
C18_Witness ==
  /\ InFlight(FirstCall) /\ calls[FirstCall].op = "perfmonAddCounter"
  /\ calls[FirstCall].args[2].t = "arr"
  /\ Len(calls[FirstCall].args[2].el) = 2
  /\ calls[FirstCall].args[2].el[1] # calls[FirstCall].args[2].el[2]
  /\ Payload(calls[FirstCall].init.body.s)
       = Fragment(calls[FirstCall].args[2].el[1]) \o Fragment(calls[FirstCall].args[2].el[2])

\* Every entry's Name is the path of a reference.
NamesArePaths(entries) ==
  \A i \in 1..Len(entries) :
    \E ref \in CallRefs : Get(entries[i], "Name") = Str(PathOf(ref))

\* results as a list of samples: the one sample of a single entry is results
\* itself.
SamplesOf(results) == IF results.t = "arr" THEN results.el ELSE <<results>>

C16_CleanIdempotent == Len(passes) >= 2 => passes[2] = passes[1]

\* The status text of a status code.
StatusText(status) ==
  IF status = 500 THEN Str(<<"Internal Server Error">>) ELSE Str(<<"OK">>)

\* C20: every rejection caused by a non-success HTTP response carries the
\* status code, the status text, the context of the call (host and object for
\* collectCounterData and listInstance, host for listCounter, the session id
\* for the session operations) and, as message, the server's faultstring when
\* there is one and "Unknown" otherwise.
C20_RejectionShape ==
  (/\ Answered(FirstCall) /\ Rejected(FirstCall)
   /\ calls[FirstCall].response.status \notin 200..299)
  => LET e == calls[FirstCall].outcome.value
         op == calls[FirstCall].op
         args == calls[FirstCall].args
         faultstring == Get(FaultOf(calls[FirstCall].response.parsed), "faultstring")
     IN /\ Get(e, "status") = Num(calls[FirstCall].response.status)
        /\ Get(e, "code") = StatusText(calls[FirstCall].response.status)
        /\ op \in {"perfmonCollectCounterData", "perfmonListInstance"} =>
             Get(e, "host") = args[1] /\ Get(e, "object") = args[2]
        /\ op = "perfmonListCounter" => Get(e, "host") = args[1]
        /\ op \in {"perfmonCollectSessionData", "perfmonCloseSession",
                   "perfmonAddCounter", "perfmonRemoveCounter"} =>
             Get(e, "sessionId") = args[1]
        /\ Get(e, "message")
             = (IF faultstring.t = "str" THEN faultstring ELSE Str(<<"Unknown">>))

\* C21: no method writes to instance-level state after construction: the
\* request options of the instance (headers, body, action) are, after any
\* call, what they were right after construction.
C21_OptionsUntouched == OPTIONS = constructor(ctorOptions)

PlainOps == {"perfmonCloseSession", "perfmonAddCounter", "perfmonRemoveCounter"}

\* C22: closeSession, addCounter and removeCounter resolve with results
\* "success" exactly when the response body holds the operation's Response
\* element directly under Body; when the server answers with a fault for the
\* handle, the call fails.
C22_SuccessIffResponse ==
  (Answered(FirstCall) /\ calls[FirstCall].op \in PlainOps /\
   calls[FirstCall].response.parsed.t = "obj")
  => LET Body == Get(calls[FirstCall].response.parsed, "Body")
         success == /\ Resolved(FirstCall)
                    /\ Get(calls[FirstCall].outcome.value, "results") = Str(<<"success">>)
     IN /\ success <=> HasKey(Body, ResponseKey(calls[FirstCall].op))
        /\ (HasKey(Body, "Fault") /\ ~HasKey(Body, ResponseKey(calls[FirstCall].op)))
             => Rejected(FirstCall)

\* C23: an attempt is followed by another only if it ended in a network error
\* or in a response of status 400 or more; a response of status below 400 is
\* never retried, and the outcome of the call is computed from it.
C23_RetryOnlyOnFailure ==
  /\ calls[FirstCall].pc = "retryWait" =>
       (calls[FirstCall].last = Null \/ calls[FirstCall].last.status >= 400)
  /\ Answered(FirstCall) =>
       calls[FirstCall].outcome
         = thenHandler(calls[FirstCall].op, calls[FirstCall].args, calls[FirstCall].response)

\* With retries enabled, a call that was retried has ended on a response of
\* status 200.
C23_Witness ==
  /\ Truthy(ctorOptions)
  /\ Answered(FirstCall) /\ calls[FirstCall].attempt >= 1
  /\ calls[FirstCall].response.status = 200

\* C24: when an attempt fails and a retry is triggered, the retry decision is
\* delivered, and hence the next attempt issued, only after the delay timer
\* has fired.
C24_DecisionAfterDelay ==
  calls[FirstCall].pc = "retryWait" => calls[FirstCall].delay = "fired"

\* The tree holds, at some depth, a field or an element that is null,
\* undefined or an empty object.
RECURSIVE HoldsEmpty(_)
HoldsEmpty(v) ==
  LET children == IF v.t = "obj" THEN [i \in 1..Len(v.kv) |-> v.kv[i][2]]
                  ELSE IF v.t = "arr" THEN v.el ELSE <<>>
  IN \E i \in 1..Len(children) :
       \/ children[i].t \in {"null", "undef"}
       \/ children[i] = Obj(<<>>)
       \/ HoldsEmpty(children[i])

\* C25: after pruning, the result tree holds at no depth, neither as a field
\* of an object nor as an element of an array, a value that is null,
\* undefined or an empty object.
C25_NothingEmptyLeft == Len(passes) >= 1 => ~HoldsEmpty(passes[1])

\* Some node of the tree, at any depth, has the key.
RECURSIVE HasKeyAnywhere(_, _)
HasKeyAnywhere(v, key) ==
  \/ HasKey(v, key)
  \/ v.t = "obj" /\ \E i \in 1..Len(v.kv) : HasKeyAnywhere(v.kv[i][2], key)
  \/ v.t = "arr" /\ \E i \in 1..Len(v.el) : HasKeyAnywhere(v.el[i], key)

\* b is a with every "$" field taken out and nothing else changed.
RECURSIVE SameButAttributes(_, _)
SameButAttributes(a, b) ==
  CASE a.t = "obj" ->
         LET fields == SelectSeq(a.kv, LAMBDA p : p[1] # "$")
         IN /\ b.t = "obj" /\ Len(b.kv) = Len(fields)
            /\ \A i \in 1..Len(fields) :
                 /\ b.kv[i][1] = fields[i][1]
                 /\ SameButAttributes(fields[i][2], b.kv[i][2])
    [] a.t = "arr" ->
         /\ b.t = "arr" /\ Len(b.el) = Len(a.el)
         /\ \A i \in 1..Len(a.el) : SameButAttributes(a.el[i], b.el[i])
    [] OTHER -> b = a

\* C26: after removeKeys with "$", no node at any depth of the parsed tree,
\* nodes inside arrays included, has the key "$", and every other key and
\* value of the tree is unchanged.
C26_AttributesStripped ==
  (Answered(FirstCall) /\ calls[FirstCall].response.parsed.t = "obj") =>
    LET output == removeKeys(calls[FirstCall].response.parsed, <<"$">>)
    IN /\ ~HasKeyAnywhere(output, "$")
       /\ SameButAttributes(calls[FirstCall].response.parsed, output)

\* A listCounter call has ended on a response whose Return is an array of
\* entries with attributes.
C26_Witness ==
  /\ Answered(FirstCall) /\ calls[FirstCall].op = "perfmonListCounter"
  /\ LET v == ReturnOf("perfmonListCounter", calls[FirstCall].response.parsed)
     IN v.t = "arr" /\ \A i \in 1..Len(v.el) : HasKey(v.el[i], "$")
  /\ ~HasKeyAnywhere(removeKeys(calls[FirstCall].response.parsed, <<"$">>), "$")

\* The parsed document without its Header, which holds none of the known
\* positions.
WithoutHeader(parsed) == Obj(SelectSeq(parsed.kv, LAMBDA p : p[1] # "Header"))

\* C27: whether a response is a success, a fault or empty depends only on the
\* keys at the known positions (the Response under Body, the Return under
\* that Response, the Fault under Body): a key of the same name anywhere else
\* in the tree never changes the outcome of the call.
C27_OnlyKnownPositions ==
  (/\ Answered(FirstCall)
   /\ HasKey(calls[FirstCall].response.parsed, "Header"))
  => calls[FirstCall].outcome
       = thenHandler(calls[FirstCall].op, calls[FirstCall].args,
                     [calls[FirstCall].response EXCEPT
                        !.parsed = WithoutHeader(calls[FirstCall].response.parsed)])

\* C28: when the final response has a non-success status and no parseable
\* fault structure (no Fault in the body, or a body that cannot be parsed),
\* the call fails with an error that carries the HTTP status code.
C28_StatusCarried ==
  (/\ Answered(FirstCall)
   /\ calls[FirstCall].response.status \notin 200..299
   /\ \/ calls[FirstCall].response.parsed.t = "throw"
      \/ ~keyExists(calls[FirstCall].response.parsed, "Fault"))
  => /\ Rejected(FirstCall)
     /\ \/ Get(calls[FirstCall].outcome.value, "message")
             = Num(calls[FirstCall].response.status)
        \/ Get(calls[FirstCall].outcome.value, "status")
             = Num(calls[FirstCall].response.status)

\* The headers the constructor was given, none when it was given no object.
Supplied == IF ctorOptions.t = "obj" THEN ctorOptions.kv ELSE <<>>

\* C29: the authentication headers, Authorization and every header supplied
\* at construction such as Cookie, are the same on every outbound request, the
\* first attempt and each retry: no operation and no response, a set-cookie
\* header included, changes them, the instance's own copy included.
C29_AuthHeadersKept ==
  \A sent \in {OPTIONS.headers}
        \cup {WireRequest(calls[c].init).headers : c \in {d \in Calls : calls[d].pc # "idle"}} :
    /\ Get(sent, "Authorization") = Str(<<"Basic ", "dXNlcjpwYXNz">>)
    /\ \A i \in 1..Len(Supplied) : Get(sent, Supplied[i][1]) = Supplied[i][2]
    /\ HasKey(sent, "Cookie") => \E i \in 1..Len(Supplied) : Supplied[i][1] = "Cookie"

\* A retry is in flight on an instance constructed with a Cookie header, and
\* carries that header.
C29_Witness ==
  /\ InFlight(FirstCall)
  /\ calls[FirstCall].attempt >= 1
  /\ HasKey(ctorOptions, "Cookie")
  /\ Get(calls[FirstCall].init.headers, "Cookie") = Get(ctorOptions, "Cookie")

XmlMetacharacters == {"&", "<", ">"}

\* C30: the XML metacharacters of a parameter value are escaped in the
\* request body, so the body's element structure is that of the template: no
\* bare metacharacter stands in the body (a tag of the template is one symbol
\* of it).
C30_MetacharactersEscaped ==
  InFlight(FirstCall) =>
    \A i \in 1..Len(calls[FirstCall].init.body.s) :
      calls[FirstCall].init.body.s[i] \notin XmlMetacharacters

\* The tree without the values that are null, undefined or empty once pruned
\* themselves, every other value in its place.
RECURSIVE Pruned(_)
Pruned(v) ==
  IF v.t = "obj"
  THEN LET inner == [i \in 1..Len(v.kv) |-> <<v.kv[i][1], Pruned(v.kv[i][2])>>]
       IN Obj(SelectSeq(inner, LAMBDA p : ~IsEmptyValue(p[2])))
  ELSE IF v.t = "arr"
  THEN LET inner == [i \in 1..Len(v.el) |-> Pruned(v.el[i])]
       IN Arr(SelectSeq(inner, LAMBDA e : ~IsEmptyValue(e)))
  ELSE v

\* Every value of a is in b, at the same place of the tree and in the same
\* relative order; b may hold more.
RECURSIVE Within(_, _)
RECURSIVE ElementsWithin(_, _)
RECURSIVE FieldsWithin(_, _)
Within(a, b) ==
  IF a.t = "arr" THEN b.t = "arr" /\ ElementsWithin(a.el, b.el)
  ELSE IF a.t = "obj" THEN b.t = "obj" /\ FieldsWithin(a.kv, b.kv)
  ELSE a = b

ElementsWithin(a, b) ==
  IF a = <<>> THEN TRUE
  ELSE IF b = <<>> THEN FALSE
  ELSE IF Within(Head(a), Head(b)) THEN ElementsWithin(Tail(a), Tail(b))
  ELSE ElementsWithin(a, Tail(b))

FieldsWithin(a, b) ==
  IF a = <<>> THEN TRUE
  ELSE IF b = <<>> THEN FALSE
  ELSE IF Head(a)[1] = Head(b)[1] /\ Within(Head(a)[2], Head(b)[2])
       THEN FieldsWithin(Tail(a), Tail(b))
  ELSE FieldsWithin(a, Tail(b))

\* C32: pruning removes only the values that are null, undefined or empty
\* once pruned themselves: every other value of the tree, an element of an
\* array that also holds empty elements included, is still in the pruned tree,
\* in the same relative order.
C32_OnlyEmptyRemoved == Len(passes) >= 1 => Within(Pruned(tree), passes[1])

\* C34: when listInstance wraps a single entry into a list of one, only the
\* results field changes: the resolved value still has the cookie captured
\* from the response, with the same value.
C34_WrapKeepsCookie ==
  (/\ Answered(FirstCall)
   /\ calls[FirstCall].op = "perfmonListInstance"
   /\ Resolved(FirstCall)
   /\ ReturnOf(calls[FirstCall].op, calls[FirstCall].response.parsed).t = "obj"
   /\ Truthy(calls[FirstCall].response.setCookie))
  => Get(calls[FirstCall].outcome.value, "cookie") = calls[FirstCall].response.setCookie

C35_OwnData ==
  \A c \in Calls :
    (/\ Done(c)
     /\ Resolved(c)
     /\ calls[c].op = "perfmonCollectCounterData"
     /\ Truthy(ctorOptions)
     /\ Get(calls[c].outcome.value, "results").t = "obj")
    => Get(Get(calls[c].outcome.value, "results"), "object") = calls[c].args[2]

\* C36: whatever the retry count configured (PERFMON_RETRIES absent, a
\* number, not a number) and whatever the server does, a call issues finitely
\* many attempts and then settles: once issued, its promise is eventually
\* resolved or rejected.
C36_CallSettles ==
  (calls[FirstCall].pc # "idle") ~> (calls[FirstCall].outcome.settled # "pending")

\* The operations of the session chain, in the order the protocol gives.
SessionOps ==
  <<"perfmonOpenSession", "perfmonAddCounter", "perfmonCollectSessionData",
    "perfmonRemoveCounter", "perfmonCloseSession">>

\* The calls issued so far that are operations on the session handle, in
\* the order of issue.
OnHandle ==
  SelectSeq([k \in 1..flow.step |-> k],
            LAMBDA k : \E i \in 1..Len(SessionOps) : calls[k].op = SessionOps[i])

\* C31: in the workflow of the tests the operations on the session handle
\* are issued in the order openSession, addCounter, collectSessionData,
\* removeCounter, closeSession, each only after the one before it has
\* resolved, and no call issued after closeSession is an operation on the
\* handle or is given the handle.
C31_WorkflowOrder ==
  /\ Len(OnHandle) <= Len(SessionOps)
  /\ \A i \in 1..Len(OnHandle) :
       /\ calls[OnHandle[i]].op = SessionOps[i]
       /\ i > 1 => /\ calls[OnHandle[i - 1]].pc = "done"
                   /\ calls[OnHandle[i - 1]].outcome.settled = "resolved"
                   /\ calls[OnHandle[i]].args[1] = calls[OnHandle[1]].outcome.value
  /\ \A k \in 1..flow.step :
       (\E j \in 1..(k - 1) : calls[j].op = "perfmonCloseSession")
       => /\ \A i \in 1..Len(SessionOps) : calls[k].op # SessionOps[i]
          /\ \A a \in 1..Len(calls[k].args) : calls[k].args[a] # SessionID

\* The whole chain has run and a call has been issued after closeSession.
C31_Witness ==
  /\ flow.step >= 7
  /\ calls[6].pc = "done"
  /\ calls[6].outcome.settled = "resolved"

\* What holds of the helper at every moment.
HelperSafe ==
  LET n == Len(helper.results)
  IN /\ n + helper.running <= helper.given + 1
     /\ helper.running <= 1
     /\ Len(helper.invoked) <= 1
     /\ helper.outcome.settled # "pending" <=> Len(helper.invoked) = 1
     /\ helper.outcome.settled = "resolved" =>
          /\ n >= 1
          /\ helper.results[n] = helper.outcome
          /\ \A i \in 1..(n - 1) : helper.results[i].settled = "rejected"
     /\ helper.outcome.settled = "rejected" =>
          /\ n = helper.given + 1
          /\ helper.results[n] = helper.outcome
          /\ \A i \in 1..n : helper.results[i].settled = "rejected"

\* C37: retry(fn, retriesLeft, interval) invokes fn at most retriesLeft + 1
\* times and never twice at once; it resolves with the first fulfilled result
\* of fn, rejects with the last error and only after retriesLeft + 1
\* failures, and settles exactly once: never twice, and in the end once.
C37_RetryHelper == []HelperSafe /\ <>(helper.outcome.settled # "pending")

\* retry has rejected after as many failures as it allows, more than one.
C37_Witness ==
  /\ helper.outcome.settled = "rejected"
  /\ helper.given >= 1
  /\ Len(helper.results) = helper.given + 1

====
